---------------------------- MODULE Spec2Model ----------------------------
(***************************************************************************)
(* The KV admission-control integration layer                              *)
(* (pkg/kv/kvserver/kvadmission/kvadmission.go).                           *)
(*                                                                         *)
(* Every call of controllerImpl.AdmitKVWork is a process with its own      *)
(* locals (ah, admissionInfo, admissionEnabled, the deferred functions,    *)
(* the named results handle and retErr).  The three admission queues are   *)
(* shared by all calls.  A call is cut into steps at the places where it   *)
(* calls into a queue, so that calls of different requests interleave.     *)
(***************************************************************************)
EXTENDS Integers, Sequences, FiniteSets, TLC

(***************************************************************************)
(* Bounds of the model.                                                    *)
(***************************************************************************)
\* Number of requests that may be in flight at the same time.
NumReqs == 2
\* The clock (timeutil.Now().UnixNano()) takes the values 1..MaxClock.
MaxClock == 2

ReqIds == 1..NumReqs

(***************************************************************************)
(* Values of the request and of the admission header.                      *)
(***************************************************************************)
\* roachpb.SystemTenantID; the second tenant stands for any SQL tenant.
SystemTenantID == 1
TenantIDs == {SystemTenantID, SystemTenantID + 1}

IsSystemTenantID(tenantID) == tenantID = SystemTenantID

\* roachpb.AdmissionHeader_Source
Sources == {"OTHER", "FROM_SQL", "ROOT_KV"}

\* admissionpb.NormalPri, and one priority on either side of it.
NormalPri == 0
Priorities == {NormalPri - 1, NormalPri, NormalPri + 1}

\* A declared create-time is 0 (unset) or a time no clock reading of the
\* model equals.
CreateTimes == {0, MaxClock + 1}

\* Stores a request may name; TryGetQueueForStore finds a queue for the
\* first only.
StoreIDs == {1, 2}
StoresWithQueue == {1}

\* What the batch holds: a single HeartbeatTxn request, a single Export
\* request, or anything else.
Singles == {"none", "HeartbeatTxn", "Export"}

BatchRequests ==
  [ IsAdmin    : BOOLEAN,
    Source     : Sources,
    Priority   : Priorities,
    CreateTime : CreateTimes,
    IsWrite    : BOOLEAN,
    Single     : Singles,
    StoreID    : StoreIDs ]

IsAdmin(ba) == ba.IsAdmin
IsWrite(ba) == ba.IsWrite
IsSingleHeartbeatTxnRequest(ba) == ba.Single = "HeartbeatTxn"
IsSingleExportRequest(ba) == ba.Single = "Export"

\* The zero value of a token, of a queue reference, of a tenant.
Nil == 0

\* StoreGrantCoordinators.TryGetQueueForStore: the queue of the store, Nil
\* when the store has none.
TryGetQueueForStore(storeID) ==
  IF storeID \in StoresWithQueue THEN storeID ELSE Nil

\* admission.StoreWorkDoneInfo{}
ZeroDoneInfo == [WriteBytes |-> 0, IngestedBytes |-> 0]

\* The *StoreWriteBytes a caller may pass to AdmittedKVWorkDone: the nil
\* pointer, or a pointer to a value.
WriteBytesArgs ==
  { [isNil |-> TRUE,  val |-> ZeroDoneInfo],
    [isNil |-> FALSE, val |-> ZeroDoneInfo],
    [isNil |-> FALSE, val |-> [WriteBytes |-> 1, IngestedBytes |-> 0]],
    [isNil |-> FALSE, val |-> [WriteBytes |-> 0, IngestedBytes |-> 1]] }

\* Handle{tenantID: tenantID}
NewHandle(tenantID) ==
  [ tenantID                           |-> tenantID,
    storeAdmissionQ                    |-> Nil,
    storeWorkHandle                    |-> Nil,
    ElasticCPUWorkHandle               |-> Nil,
    callAdmittedWorkDoneOnKVAdmissionQ |-> FALSE ]

\* Handle{}
EmptyHandle == NewHandle(Nil)


(***************************************************************************)
(* State.                                                                  *)
(***************************************************************************)
VARIABLES
  queuesPresent, \* n.kvAdmissionQ != nil (all three queues are nil or non-nil)
  bulkOnly,      \* admission.KVBulkOnlyAdmissionControlEnabled
  now,           \* timeutil.Now().UnixNano()
  storeQ,        \* per store queue: the tokens granted and not yet completed
  elasticQ,      \* elastic CPU queue: the handles granted and not yet completed
  kvQ,           \* general queue: per tenant, admitted work not yet reported done
  pc,            \* per call: where the call stands
  req,           \* per call: the arguments tenantID and ba
  callTime,      \* per call: the clock when AdmitKVWork was entered
  local,         \* per call: the locals of AdmitKVWork
  ah,            \* per call: the local Handle ah
  result,        \* per call: the named results handle and retErr
  trace,         \* per call: the queue methods the call has invoked, in order
  pacer,         \* the *Pacer a loop holds: whether it is nil, and its cur
  pacerTrace,    \* the elastic queue methods the Pacer has invoked, in order
  lastCall,      \* the last call of Pace or Close: arguments and result
  kvTenantWeightsEnabled,       \* admission.KVTenantWeightsEnabled
  kvStoresTenantWeightsEnabled, \* admission.KVStoresTenantWeightsEnabled
  loopPc,             \* where the goroutine of SetTenantWeightProvider stands
  allWeightsDisabled, \* its local allWeightsDisabled
  kvDisabled,         \* its local kvDisabled
  kvStoresDisabled,   \* its local kvStoresDisabled
  tickerC,            \* a tick waits in ticker.C
  tickerStopped,      \* ticker.Stop() has been called
  quiescing,          \* the channel of stopper.ShouldQuiesce() is closed
  active,             \* the tick bodies that have begun and not ended
  tickRec,            \* the last tick: flags it saw, provider calls, pushes
  reports,            \* three FollowerStoreWriteBytes values a, b and c
  merged,             \* what Merge has made of them so far
  followerCall,       \* the last call of FollowerStoreWriteBytes
  envNodes,           \* env.Nodes: per index, HasReady, AppendWork, ApplyWork
  envMessages,        \* env.Messages
  stab,               \* the call of Stabilize: arguments, position, result
  lastStep,           \* the last step Stabilize had the environment make
  work                \* what the nodes may still produce

admitVars ==
  << queuesPresent, bulkOnly, now, storeQ, elasticQ, kvQ,
     pc, req, callTime, local, ah, result, trace >>

pacerVars == << pacer, pacerTrace, lastCall >>

weightVars ==
  << kvTenantWeightsEnabled, kvStoresTenantWeightsEnabled, loopPc,
     allWeightsDisabled, kvDisabled, kvStoresDisabled, tickerC, tickerStopped,
     quiescing, active, tickRec >>

followerVars == << reports, merged, followerCall >>

stabVars == << envNodes, envMessages, stab, lastStep, work >>

nonAdmitVars == << pacerVars, weightVars, followerVars, stabVars >>

vars == << admitVars, nonAdmitVars >>

NoRequest ==
  [ tenantID |-> Nil,
    ba |-> [ IsAdmin |-> FALSE, Source |-> "OTHER", Priority |-> NormalPri,
             CreateTime |-> 0, IsWrite |-> FALSE, Single |-> "none",
             StoreID |-> 1 ] ]

NoLocals ==
  [ source           |-> "OTHER",
    admissionInfo    |-> [ TenantID |-> Nil, Priority |-> NormalPri,
                           CreateTime |-> 0, BypassAdmission |-> FALSE ],
    admissionEnabled |-> TRUE,
    defers           |-> << >> ]

NoResult == [handle |-> EmptyHandle, retErr |-> FALSE]

\* One invocation of a queue method: the queue, the method, the token or
\* handle passed or returned, how an Admit ended, what a store completion
\* reported.
Event(q, op, tok, res, info) ==
  [q |-> q, op |-> op, tok |-> tok, res |-> res, info |-> info]

\* No call of Pace or Close yet.
NoCall ==
  [ op |-> "none", prev |-> "none", before |-> Nil, overLimit |-> FALSE,
    err |-> FALSE, n |-> 0, runStart |-> 0 ]

\* The Controller after construction, before any request.
InitAdmit ==
  /\ queuesPresent \in BOOLEAN
  /\ bulkOnly \in BOOLEAN
  /\ now = 1
  /\ storeQ = [s \in StoresWithQueue |-> {}]
  /\ elasticQ = {}
  /\ kvQ = [t \in TenantIDs |-> 0]
  /\ pc = [r \in ReqIds |-> "idle"]
  /\ req = [r \in ReqIds |-> NoRequest]
  /\ callTime = [r \in ReqIds |-> 0]
  /\ local = [r \in ReqIds |-> NoLocals]
  /\ ah = [r \in ReqIds |-> EmptyHandle]
  /\ result = [r \in ReqIds |-> NoResult]
  /\ trace = [r \in ReqIds |-> << >>]

\* No Pacer has been handed out.
InitNoPacer ==
  /\ pacer = [isNil |-> TRUE, cur |-> Nil]
  /\ pacerTrace = << >>
  /\ lastCall = NoCall

\* A nil map of tenant weights.
NilWeights == << >>

\* No tick yet.
NoTick ==
  [ state |-> "none", kvDisabled |-> FALSE, kvStoresDisabled |-> FALSE,
    prevAllDisabled |-> FALSE, calls |-> 0,
    weights |-> [Node |-> NilWeights, Stores |-> << >>], pushes |-> << >> ]

\* SetTenantWeightProvider has not been called.
InitNoWeightLoop ==
  /\ kvTenantWeightsEnabled = FALSE
  /\ kvStoresTenantWeightsEnabled = FALSE
  /\ loopPc = "notStarted"
  /\ allWeightsDisabled = FALSE
  /\ kvDisabled = FALSE
  /\ kvStoresDisabled = FALSE
  /\ tickerC = FALSE
  /\ tickerStopped = FALSE
  /\ quiescing = FALSE
  /\ active = 0
  /\ tickRec = NoTick

\* FollowerStoreWriteBytes{}
ZeroFollowerStoreWriteBytes ==
  [NumEntries |-> 0, WriteBytes |-> 0, IngestedBytes |-> 0]

\* Nothing merged yet.
NothingMerged ==
  [ step |-> 0,
    ab |-> ZeroFollowerStoreWriteBytes, ba |-> ZeroFollowerStoreWriteBytes,
    bc |-> ZeroFollowerStoreWriteBytes, abc |-> ZeroFollowerStoreWriteBytes,
    a_bc |-> ZeroFollowerStoreWriteBytes, folds |-> {} ]

\* No call of FollowerStoreWriteBytes yet.
NoFollowerCall ==
  [ called |-> FALSE, storeID |-> 1,
    followerWriteBytes |-> ZeroFollowerStoreWriteBytes, calls |-> << >> ]

\* No follower has written.
InitNoFollower ==
  /\ reports = [ a |-> ZeroFollowerStoreWriteBytes,
                 b |-> ZeroFollowerStoreWriteBytes,
                 c |-> ZeroFollowerStoreWriteBytes ]
  /\ merged = NothingMerged
  /\ followerCall = NoFollowerCall

\* How many nodes the interaction environment has.
NumNodes == 2

\* The indexes into env.Nodes.
NodeIdxs == 0..(NumNodes - 1)

\* A nil error.
NilError == "nil"

\* A node with nothing to do.
QuietNode == [HasReady |-> FALSE, AppendWork |-> 0, ApplyWork |-> 0]

\* No call of Stabilize.
NoStabilize ==
  [ pc |-> "idle", idxs |-> << >>, nodes |-> << >>, phase |-> "ready",
    i |-> 1, done |-> TRUE, ret |-> NilError ]

NoStep == [op |-> "none", idx |-> 0, err |-> NilError]

\* An environment at rest.
InitNoStabilize ==
  /\ envNodes = [idx \in NodeIdxs |-> QuietNode]
  /\ envMessages = << >>
  /\ stab = NoStabilize
  /\ lastStep = NoStep
  /\ work = 0

Init ==
  /\ InitAdmit
  /\ InitNoPacer
  /\ InitNoWeightLoop
  /\ InitNoFollower
  /\ InitNoStabilize

(***************************************************************************)
(* Classification of a request, lines 179-206 of AdmitKVWork.              *)
(***************************************************************************)
\* The local variable source after line 185.
SourceOf(tenantID, b) ==
  IF ~IsSystemTenantID(tenantID) THEN "FROM_SQL" ELSE b.Source

\* A classification without the rule of lines 186-188.
MutBypassNoOtherRule(tenantID, b, bulk) ==
  LET b1 == IsAdmin(b)
      b2 == IF ~IsSystemTenantID(tenantID) THEN FALSE ELSE b1
      b4 == IF bulk /\ b.Priority >= NormalPri THEN TRUE ELSE b2
  IN  b4

\* A classification without the rule of lines 181-185 for bypassAdmission.
MutBypassNoTenantRule(tenantID, b, bulk) ==
  LET b1 == IsAdmin(b)
      b3 == IF SourceOf(tenantID, b) = "OTHER" THEN TRUE ELSE b1
      b4 == IF bulk /\ b.Priority >= NormalPri THEN TRUE ELSE b3
  IN  b4

\* A classification whose bulk-only rule compares with > instead of >=.
MutBypassStrictlyAbove(tenantID, b, bulk) ==
  LET b1 == IsAdmin(b)
      b2 == IF ~IsSystemTenantID(tenantID) THEN FALSE ELSE b1
      b3 == IF SourceOf(tenantID, b) = "OTHER" THEN TRUE ELSE b2
      b4 == IF bulk /\ b.Priority > NormalPri THEN TRUE ELSE b3
  IN  b4

\* The local variable bypassAdmission after line 194; bulk is the value of
\* the bulk-only setting.
BypassAdmission(tenantID, b, bulk) ==
  LET b1 == IsAdmin(b)
      b2 == IF ~IsSystemTenantID(tenantID) THEN FALSE ELSE b1
      b3 == IF SourceOf(tenantID, b) = "OTHER" THEN TRUE ELSE b2
      b4 == IF bulk /\ b.Priority >= NormalPri THEN TRUE ELSE b3
  IN  b4

\* A default create-time that is given to bypassed requests too.
MutCreateTimeIgnoresBypass(b, bypass, clock) ==
  IF b.CreateTime = 0 THEN clock ELSE b.CreateTime

\* The local variable createTime after line 200; clock is the reading of
\* timeutil.Now().
CreateTime(b, bypass, clock) ==
  IF ~bypass /\ b.CreateTime = 0 THEN clock ELSE b.CreateTime

\* admission.WorkInfo built at lines 201-206.
AdmissionInfo(tenantID, b, bulk, clock) ==
  [ TenantID        |-> tenantID,
    Priority        |-> b.Priority,
    CreateTime      |-> CreateTime(b, BypassAdmission(tenantID, b, bulk), clock),
    BypassAdmission |-> BypassAdmission(tenantID, b, bulk) ]


(***************************************************************************)
(* The queues, at their interface: Admit grants a token, AdmittedWorkDone  *)
(* completes it.                                                           *)
(***************************************************************************)
\* StoreWorkQueue.Admit granting token tok with charging enabled.
StoreQAdmit(q, s, tok) == [q EXCEPT ![s] = @ \cup {tok}]

\* StoreWorkQueue.AdmittedWorkDone(tok, info) on the queue of store s.
StoreQAdmittedWorkDone(q, s, tok) == [q EXCEPT ![s] = @ \ {tok}]

\* ElasticCPUWorkQueue.Admit granting handle h.
ElasticQAdmit(q, h) == q \cup {h}

\* ElasticCPUWorkQueue.AdmittedWorkDone(h): nothing to do for a nil handle.
ElasticQAdmittedWorkDone(q, h) == IF h = Nil THEN q ELSE q \ {h}

\* WorkQueue.Admit for a tenant, when the queue wants the completion
\* reported.
KVQAdmit(q, tenantID) == [q EXCEPT ![tenantID] = @ + 1]

\* WorkQueue.AdmittedWorkDone(tenantID)
KVQAdmittedWorkDone(q, tenantID) ==
  [q EXCEPT ![tenantID] = IF @ > 0 THEN @ - 1 ELSE 0]

(***************************************************************************)
(* AdmitKVWork, step by step.                                              *)
(***************************************************************************)
Log(r, e) == trace' = [trace EXCEPT ![r] = Append(@, e)]

\* A return statement of AdmitKVWork: the named results are assigned, the
\* deferred functions run next.
ReturnStmt(r, h, err) ==
  /\ result' = [result EXCEPT ![r] = [handle |-> h, retErr |-> err]]
  /\ pc' = [pc EXCEPT ![r] = "deferred"]

\* A controller that takes its queues to be present always.
MutKVAdmissionQNeverNil == FALSE

\* Line 175: n.kvAdmissionQ == nil.
KVAdmissionQIsNil == ~queuesPresent

\* Lines 171-177: the call is entered with tenantID and ba; without queues
\* it returns at once.
AdmitKVWork(r, tenantID, b) ==
  /\ pc[r] = "idle"
  /\ req' = [req EXCEPT ![r] = [tenantID |-> tenantID, ba |-> b]]
  /\ callTime' = [callTime EXCEPT ![r] = now]
  /\ ah' = [ah EXCEPT ![r] = NewHandle(tenantID)]
  /\ IF KVAdmissionQIsNil
       THEN ReturnStmt(r, NewHandle(tenantID), FALSE)
       ELSE /\ pc' = [pc EXCEPT ![r] = "classify"]
            /\ UNCHANGED result
  /\ UNCHANGED nonAdmitVars
  /\ UNCHANGED << queuesPresent, bulkOnly, now, storeQ, elasticQ, kvQ,
                  local, trace >>

\* Lines 179-208: bypassAdmission, source, createTime, admissionInfo.
Classify(r) ==
  /\ pc[r] = "classify"
  /\ local' = [local EXCEPT ![r] =
       [ source           |-> SourceOf(req[r].tenantID, req[r].ba),
         admissionInfo    |-> AdmissionInfo(req[r].tenantID, req[r].ba,
                                            bulkOnly, now),
         admissionEnabled |-> TRUE,
         defers           |-> << >> ]]
  /\ pc' = [pc EXCEPT ![r] = "store"]
  /\ UNCHANGED nonAdmitVars
  /\ UNCHANGED << queuesPresent, bulkOnly, now, storeQ, elasticQ, kvQ,
                  req, callTime, ah, result, trace >>

\* A store admission that heartbeats are subject to as well.
MutSubjectToStoreQIsWrite(b) == IsWrite(b)

\* Line 215: whether the store queue is asked at all.
SubjectToStoreQ(b) == IsWrite(b) /\ ~IsSingleHeartbeatTxnRequest(b)

\* Lines 218-222: storeAdmissionQ.Admit returns an error.
StoreAdmitFails(r) ==
  /\ Log(r, Event("store", "Admit", Nil, "err", ZeroDoneInfo))
  /\ ReturnStmt(r, EmptyHandle, TRUE)
  /\ UNCHANGED << storeQ, local, ah >>

\* Lines 223-232: the store queue admits the write; enabled is
\* storeWorkHandle.AdmissionEnabled().  The token granted to call r is r.
StoreAdmitSucceeds(r, s, enabled) ==
  /\ local' = [local EXCEPT
       ![r].admissionEnabled = enabled,
       ![r].defers = IF enabled THEN Append(@, "store") ELSE @]
  /\ IF enabled
       THEN /\ storeQ' = StoreQAdmit(storeQ, s, r)
            /\ ah' = [ah EXCEPT ![r].storeAdmissionQ = s,
                                ![r].storeWorkHandle = r]
            /\ Log(r, Event("store", "Admit", r, "enabled", ZeroDoneInfo))
       ELSE /\ Log(r, Event("store", "Admit", Nil, "disabled", ZeroDoneInfo))
            /\ UNCHANGED << storeQ, ah >>
  /\ pc' = [pc EXCEPT ![r] = "admit"]
  /\ UNCHANGED result

\* Lines 215-234.
StoreAdmit(r) ==
  /\ pc[r] = "store"
  /\ LET b == req[r].ba
         storeAdmissionQ == TryGetQueueForStore(b.StoreID)
     IN  IF SubjectToStoreQ(b) /\ storeAdmissionQ # Nil
           THEN \/ StoreAdmitFails(r)
                \/ \E enabled \in BOOLEAN :
                     StoreAdmitSucceeds(r, storeAdmissionQ, enabled)
           ELSE /\ pc' = [pc EXCEPT ![r] = "admit"]
                /\ UNCHANGED << storeQ, local, ah, result, trace >>
  /\ UNCHANGED nonAdmitVars
  /\ UNCHANGED << queuesPresent, bulkOnly, now, elasticQ, kvQ, req, callTime >>


\* A second step that is taken whatever the store queue signalled.
MutAdmissionEnabledAlways(l) == TRUE

\* Line 235: whether the elastic CPU queue or the general queue is asked.
AdmissionEnabled(l) == l.admissionEnabled

\* Lines 249-254 and 263-266: the Admit of the elastic CPU queue or of the
\* general queue named q returns an error.
WorkAdmitFails(r, q) ==
  /\ Log(r, Event(q, "Admit", Nil, "err", ZeroDoneInfo))
  /\ ReturnStmt(r, EmptyHandle, TRUE)
  /\ UNCHANGED << elasticQ, kvQ, local, ah >>

\* Lines 249-261 and 270: the elastic CPU queue grants a handle; the handle
\* granted to call r is r.
ElasticAdmitSucceeds(r) ==
  /\ elasticQ' = ElasticQAdmit(elasticQ, r)
  /\ ah' = [ah EXCEPT ![r].ElasticCPUWorkHandle = r]
  /\ local' = [local EXCEPT ![r].defers = Append(@, "elastic")]
  /\ Log(r, Event("elastic", "Admit", r, "ok", ZeroDoneInfo))
  /\ ReturnStmt(r, ah'[r], FALSE)
  /\ UNCHANGED kvQ

\* Lines 263-270: the general queue admits; callDone is the flag it returns.
KVAdmitSucceeds(r, callDone) ==
  /\ kvQ' = IF callDone THEN KVQAdmit(kvQ, req[r].tenantID) ELSE kvQ
  /\ ah' = [ah EXCEPT ![r].callAdmittedWorkDoneOnKVAdmissionQ = callDone]
  /\ Log(r, Event("kv", "Admit", IF callDone THEN r ELSE Nil, "ok", ZeroDoneInfo))
  /\ ReturnStmt(r, ah'[r], FALSE)
  /\ UNCHANGED << elasticQ, local >>

\* Lines 235-270.
WorkAdmit(r) ==
  /\ pc[r] = "admit"
  /\ IF AdmissionEnabled(local[r])
       THEN IF IsSingleExportRequest(req[r].ba)
              THEN \/ WorkAdmitFails(r, "elastic")
                   \/ ElasticAdmitSucceeds(r)
              ELSE \/ WorkAdmitFails(r, "kv")
                   \/ \E callDone \in BOOLEAN : KVAdmitSucceeds(r, callDone)
       ELSE /\ ReturnStmt(r, ah[r], FALSE)
            /\ UNCHANGED << elasticQ, kvQ, local, ah, trace >>
  /\ UNCHANGED nonAdmitVars
  /\ UNCHANGED << queuesPresent, bulkOnly, now, storeQ, req, callTime >>

\* A rollback condition that is inverted.
MutRollsBackOnSuccess(res) == ~res.retErr

\* Lines 226 and 257: a deferred function acts only when the call fails.
RollsBack(res) == res.retErr

\* A rollback that reads the named result handle, which the failing return
\* has already set to Handle{}.
MutRolledBackResultHandle(r) == result[r].handle.storeWorkHandle

\* The token the deferred function of line 225 completes: the closure reads
\* the local ah, not the result handle.
RolledBackStoreHandle(r) == ah[r].storeWorkHandle

\* Lines 225-230 and 256-261: the deferred function registered last runs.
RunDeferred(r) ==
  /\ pc[r] = "deferred"
  /\ local[r].defers # << >>
  /\ LET n == Len(local[r].defers)
         d == local[r].defers[n]
         storeAdmissionQ == TryGetQueueForStore(req[r].ba.StoreID)
     IN  /\ local' = [local EXCEPT ![r].defers = SubSeq(@, 1, n - 1)]
         /\ IF ~RollsBack(result[r])
              THEN UNCHANGED << storeQ, elasticQ, trace >>
              ELSE IF d = "store"
                THEN /\ storeQ' = StoreQAdmittedWorkDone(
                                    storeQ, storeAdmissionQ, RolledBackStoreHandle(r))
                     /\ Log(r, Event("store", "AdmittedWorkDone",
                                     RolledBackStoreHandle(r), "done", ZeroDoneInfo))
                     /\ UNCHANGED elasticQ
                ELSE /\ elasticQ' = ElasticQAdmittedWorkDone(
                                      elasticQ, ah[r].ElasticCPUWorkHandle)
                     /\ Log(r, Event("elastic", "AdmittedWorkDone",
                                     ah[r].ElasticCPUWorkHandle, "done", ZeroDoneInfo))
                     /\ UNCHANGED storeQ
  /\ UNCHANGED nonAdmitVars
  /\ UNCHANGED << queuesPresent, bulkOnly, now, kvQ, pc, req, callTime,
                  ah, result >>

\* The call returns handle and retErr to its caller.
Return(r) ==
  /\ pc[r] = "deferred"
  /\ local[r].defers = << >>
  /\ pc' = [pc EXCEPT ![r] = "returned"]
  /\ UNCHANGED nonAdmitVars
  /\ UNCHANGED << queuesPresent, bulkOnly, now, storeQ, elasticQ, kvQ,
                  req, callTime, local, ah, result, trace >>

(***************************************************************************)
(* AdmittedKVWorkDone, lines 274-295.  The caller passes the Handle that   *)
(* AdmitKVWork returned without error, once.                               *)
(***************************************************************************)
\* A completion that drops the bytes the caller reports.
MutDoneInfoZero(writeBytes) == ZeroDoneInfo

\* Lines 280-283.
DoneInfo(writeBytes) ==
  IF ~writeBytes.isNil THEN writeBytes.val ELSE ZeroDoneInfo

\* A completion that reports to the general queue whatever the flag.
MutReportsKVDoneAlways(h) == TRUE

\* Line 276.
ReportsKVDone(h) == h.callAdmittedWorkDoneOnKVAdmissionQ

\* Line 279.
ReportsStoreDone(h) == h.storeAdmissionQ # Nil

AdmittedKVWorkDone(r, writeBytes) ==
  /\ pc[r] = "returned"
  /\ ~result[r].retErr
  /\ LET h == result[r].handle
         e1 == << Event("elastic", "AdmittedWorkDone",
                        h.ElasticCPUWorkHandle, "done", ZeroDoneInfo) >>
         e2 == IF ReportsKVDone(h)
                 THEN << Event("kv", "AdmittedWorkDone", r, "done", ZeroDoneInfo) >>
                 ELSE << >>
         e3 == IF ReportsStoreDone(h)
                 THEN << Event("store", "AdmittedWorkDone", h.storeWorkHandle,
                               "done", DoneInfo(writeBytes)) >>
                 ELSE << >>
     IN  /\ elasticQ' = ElasticQAdmittedWorkDone(elasticQ, h.ElasticCPUWorkHandle)
         /\ kvQ' = IF ReportsKVDone(h)
                     THEN KVQAdmittedWorkDone(kvQ, h.tenantID)
                     ELSE kvQ
         /\ storeQ' = IF ReportsStoreDone(h)
                        THEN StoreQAdmittedWorkDone(storeQ, h.storeAdmissionQ,
                                                    h.storeWorkHandle)
                        ELSE storeQ
         /\ trace' = [trace EXCEPT ![r] = @ \o e1 \o e2 \o e3]
  /\ pc' = [pc EXCEPT ![r] = "done"]
  /\ UNCHANGED nonAdmitVars
  /\ UNCHANGED << queuesPresent, bulkOnly, now, req, callTime, local, ah,
                  result >>

\* Time passes.
Tick ==
  /\ now < MaxClock
  /\ now' = now + 1
  /\ UNCHANGED nonAdmitVars
  /\ UNCHANGED << queuesPresent, bulkOnly, storeQ, elasticQ, kvQ,
                  pc, req, callTime, local, ah, result, trace >>

(***************************************************************************)
(* Pacer, lines 440-477, and AdmitRangefeedRequest, lines 298-316.         *)
(***************************************************************************)
\* How many times the Pacer may call Admit on the elastic CPU queue.
MaxAdmits == 4

\* ElasticCPUWorkHandle.OverLimit, as Pace reads it on line 454: a handle may
\* or may not have run past its grant; a nil handle has not.
OverLimit(h) == IF h = Nil THEN {FALSE} ELSE BOOLEAN

IsPacerAdmit(e) == e.op = "Admit"

\* The calls of Admit the Pacer has made; the handle granted by the k-th
\* call is k.
PacerAdmits == Len(SelectSeq(pacerTrace, IsPacerAdmit))

\* Lines 306-315: a Pacer on the elastic CPU queue, with no handle yet.
AdmitRangefeedRequest ==
  /\ pacer.isNil
  /\ pacer' = [isNil |-> FALSE, cur |-> Nil]
  /\ lastCall' = NoCall
  /\ UNCHANGED << admitVars, stabVars, pacerTrace, weightVars, followerVars >>

\* A Pace that keeps the handle it has just given back.
MutPaceKeepsReleasedCur(p) == p.cur

\* Line 456: p.cur = nil.
CurAfterRelease(p) == Nil

\* A Pace that asks for a handle on every call.
MutPaceAlwaysAdmits(cur) == TRUE

\* Line 459: p.cur == nil.
PaceMustAdmit(cur) == cur = Nil

\* Lines 449-467.  overLimit is what OverLimit answers on line 454, admitOK
\* whether the Admit of line 460 grants a handle.
Pace(overLimit, admitOK) ==
  /\ overLimit \in OverLimit(pacer.cur)
  /\ LET doIt == ~pacer.isNil
         release == doIt /\ overLimit
         cur1 == IF release THEN CurAfterRelease(pacer) ELSE pacer.cur
         admit == doIt /\ PaceMustAdmit(cur1)
         handle == PacerAdmits + 1
         q1 == IF release
                 THEN ElasticQAdmittedWorkDone(elasticQ, pacer.cur)
                 ELSE elasticQ
         t1 == IF release
                 THEN Append(pacerTrace,
                             Event("elastic", "AdmittedWorkDone", pacer.cur,
                                   "ok", ZeroDoneInfo))
                 ELSE pacerTrace
     IN  /\ admit => PacerAdmits < MaxAdmits
         /\ ~admit => admitOK
         /\ elasticQ' = IF admit /\ admitOK THEN ElasticQAdmit(q1, handle) ELSE q1
         /\ pacerTrace' =
              IF admit
                THEN Append(t1, Event("elastic", "Admit",
                                      IF admitOK THEN handle ELSE Nil,
                                      IF admitOK THEN "ok" ELSE "err",
                                      ZeroDoneInfo))
                ELSE t1
         /\ pacer' = [pacer EXCEPT !.cur = IF admit /\ admitOK THEN handle ELSE cur1]
         /\ lastCall' = [ op |-> "Pace", prev |-> lastCall.op,
                          before |-> pacer.cur, overLimit |-> overLimit,
                          err |-> admit /\ ~admitOK, n |-> Len(pacerTrace),
                          runStart |-> Len(pacerTrace) ]
  /\ UNCHANGED << queuesPresent, bulkOnly, now, storeQ, kvQ, pc, req, callTime,
                  local, ah, result, trace, weightVars, followerVars,
                  stabVars >>

\* A Close that keeps the handle it has given back.
MutCloseKeepsCur(p) == p.cur

\* Line 476: p.cur = nil.
CurAfterClose(p) == Nil

\* Lines 470-477.
Close ==
  /\ LET release == ~(pacer.isNil \/ pacer.cur = Nil)
     IN  /\ elasticQ' = IF release
                          THEN ElasticQAdmittedWorkDone(elasticQ, pacer.cur)
                          ELSE elasticQ
         /\ pacerTrace' =
              IF release
                THEN Append(pacerTrace,
                            Event("elastic", "AdmittedWorkDone", pacer.cur,
                                  "ok", ZeroDoneInfo))
                ELSE pacerTrace
         /\ pacer' = IF release
                       THEN [pacer EXCEPT !.cur = CurAfterClose(pacer)]
                       ELSE pacer
  /\ lastCall' = [ op |-> "Close", prev |-> lastCall.op,
                   before |-> pacer.cur, overLimit |-> FALSE, err |-> FALSE,
                   n |-> Len(pacerTrace),
                   runStart |-> IF lastCall.op = "Close"
                                  THEN lastCall.runStart
                                  ELSE Len(pacerTrace) ]
  /\ UNCHANGED << queuesPresent, bulkOnly, now, storeQ, kvQ, pc, req, callTime,
                  local, ah, result, trace, weightVars, followerVars,
                  stabVars >>

(***************************************************************************)
(* SetTenantWeightProvider, lines 319-361.                                 *)
(***************************************************************************)
\* How many per store entries GetTenantWeights may return.
MaxStoreEntries == 2

\* A map of tenant weights that is not empty.
SomeWeights == [t \in TenantIDs |-> t + 1]

WeightMaps == {NilWeights, SomeWeights}

StoreEntries == [StoreID : StoreIDs, Weights : WeightMaps]

\* What provider.GetTenantWeights() may return.
TenantWeights ==
  [ Node : WeightMaps,
    Stores : UNION { [1..n -> StoreEntries] : n \in 0..MaxStoreEntries } ]

\* One call of SetTenantWeights on a queue.
Push(q, store, weights) == [q |-> q, store |-> store, weights |-> weights]

\* Lines 323-328: the goroutine starts with a ticker and allWeightsDisabled
\* false.
SetTenantWeightProvider ==
  /\ loopPc = "notStarted"
  /\ loopPc' = "select"
  /\ allWeightsDisabled' = FALSE
  /\ UNCHANGED << admitVars, stabVars, pacerVars, followerVars, kvTenantWeightsEnabled,
                  kvStoresTenantWeightsEnabled, kvDisabled, kvStoresDisabled,
                  tickerC, tickerStopped, quiescing, active, tickRec >>

\* The ticker sends a tick unless one waits already or it has been stopped.
TickerFires ==
  /\ loopPc # "notStarted"
  /\ ~tickerStopped
  /\ ~tickerC
  /\ tickerC' = TRUE
  /\ UNCHANGED << admitVars, stabVars, pacerVars, followerVars, kvTenantWeightsEnabled,
                  kvStoresTenantWeightsEnabled, loopPc, allWeightsDisabled,
                  kvDisabled, kvStoresDisabled, tickerStopped, quiescing,
                  active, tickRec >>

\* The stopper begins to quiesce.
Quiesce ==
  /\ ~quiescing
  /\ quiescing' = TRUE
  /\ UNCHANGED << admitVars, stabVars, pacerVars, followerVars, kvTenantWeightsEnabled,
                  kvStoresTenantWeightsEnabled, loopPc, allWeightsDisabled,
                  kvDisabled, kvStoresDisabled, tickerC, tickerStopped,
                  active, tickRec >>

\* An operator changes one of the two cluster settings.
SetKVTenantWeightsEnabled(v) ==
  /\ v # kvTenantWeightsEnabled
  /\ kvTenantWeightsEnabled' = v
  /\ UNCHANGED << admitVars, stabVars, pacerVars, followerVars, kvStoresTenantWeightsEnabled, loopPc,
                  allWeightsDisabled, kvDisabled, kvStoresDisabled, tickerC,
                  tickerStopped, quiescing, active, tickRec >>

SetKVStoresTenantWeightsEnabled(v) ==
  /\ v # kvStoresTenantWeightsEnabled
  /\ kvStoresTenantWeightsEnabled' = v
  /\ UNCHANGED << admitVars, stabVars, pacerVars, followerVars, kvTenantWeightsEnabled, loopPc,
                  allWeightsDisabled, kvDisabled, kvStoresDisabled, tickerC,
                  tickerStopped, quiescing, active, tickRec >>

\* Lines 330-332: the select receives the tick and the body reads the first
\* setting.
TickBegin ==
  /\ loopPc = "select"
  /\ tickerC
  /\ tickerC' = FALSE
  /\ kvDisabled' = ~kvTenantWeightsEnabled
  /\ loopPc' = "check"
  /\ active' = active + 1
  /\ tickRec' = [ NoTick EXCEPT
                    !.state = "running",
                    !.kvDisabled = ~kvTenantWeightsEnabled,
                    !.prevAllDisabled = /\ tickRec.state # "none"
                                        /\ tickRec.kvDisabled
                                        /\ tickRec.kvStoresDisabled ]
  /\ UNCHANGED << admitVars, stabVars, pacerVars, followerVars, kvTenantWeightsEnabled,
                  kvStoresTenantWeightsEnabled, allWeightsDisabled,
                  kvStoresDisabled, tickerStopped, quiescing >>

\* Lines 333-337: the body reads the second setting and ends at once when
\* the weights were disabled already and still are.
TickCheck ==
  /\ loopPc = "check"
  /\ kvStoresDisabled' = ~kvStoresTenantWeightsEnabled
  /\ IF allWeightsDisabled /\ kvDisabled /\ kvStoresDisabled'
       THEN /\ loopPc' = "select"
            /\ active' = active - 1
            /\ tickRec' = [tickRec EXCEPT
                             !.state = "skipped",
                             !.kvStoresDisabled = ~kvStoresTenantWeightsEnabled]
       ELSE /\ loopPc' = "poll"
            /\ active' = active
            /\ tickRec' = [tickRec EXCEPT
                             !.kvStoresDisabled = ~kvStoresTenantWeightsEnabled]
  /\ UNCHANGED << admitVars, stabVars, pacerVars, followerVars, kvTenantWeightsEnabled,
                  kvStoresTenantWeightsEnabled, allWeightsDisabled, kvDisabled,
                  tickerC, tickerStopped, quiescing >>

\* A loop that keeps the node weights whatever the setting.
MutNodeWeightsKept(weights, disabled) == weights.Node

\* Lines 339-341.
NodeWeights(weights, disabled) ==
  IF disabled THEN NilWeights ELSE weights.Node

\* Lines 345-353: the calls of SetTenantWeights for the per store entries, in
\* the order of the entries.
RECURSIVE StorePushes(_, _)
StorePushes(stores, disabled) ==
  IF stores = << >>
    THEN << >>
    ELSE LET storeWeights == Head(stores)
             q == TryGetQueueForStore(storeWeights.StoreID)
             rest == StorePushes(Tail(stores), disabled)
         IN  IF q # Nil
               THEN << Push("store", q,
                            IF disabled THEN NilWeights
                                        ELSE storeWeights.Weights) >> \o rest
               ELSE rest

\* A loop that takes the weights to be off when either setting is off.
MutAnyWeightsDisabled(kvOff, kvStoresOff) == kvOff \/ kvStoresOff

\* Line 354.
AllWeightsDisabledAfter(kvOff, kvStoresOff) == kvOff /\ kvStoresOff

\* Lines 338-354: the provider is polled and the weights are pushed.
TickPoll(weights) ==
  /\ loopPc = "poll"
  /\ allWeightsDisabled' = AllWeightsDisabledAfter(kvDisabled, kvStoresDisabled)
  /\ loopPc' = "select"
  /\ active' = active - 1
  /\ tickRec' = [tickRec EXCEPT
                   !.state = "polled",
                   !.calls = @ + 1,
                   !.weights = weights,
                   !.pushes =
                     << Push("kv", Nil, NodeWeights(weights, kvDisabled)),
                        Push("elastic", Nil, NodeWeights(weights, kvDisabled)) >>
                     \o StorePushes(weights.Stores, kvStoresDisabled)]
  /\ UNCHANGED << admitVars, stabVars, pacerVars, followerVars, kvTenantWeightsEnabled,
                  kvStoresTenantWeightsEnabled, kvDisabled, kvStoresDisabled,
                  tickerC, tickerStopped, quiescing >>

\* A loop that goes on after the stopper has begun to quiesce.
MutKeepsLooping == "select"

\* Line 357: return.
AfterQuiesce == "stopped"

\* Lines 355-357.
Quit ==
  /\ loopPc = "select"
  /\ quiescing
  /\ tickerStopped' = TRUE
  /\ loopPc' = AfterQuiesce
  /\ UNCHANGED << admitVars, stabVars, pacerVars, followerVars, kvTenantWeightsEnabled,
                  kvStoresTenantWeightsEnabled, allWeightsDisabled, kvDisabled,
                  kvStoresDisabled, tickerC, quiescing, active, tickRec >>

(***************************************************************************)
(* FollowerStoreWriteBytes: the type and Merge, lines 399-409, and the     *)
(* method of the Controller, lines 375-387.                                *)
(***************************************************************************)
\* The width of the int64 fields, scaled down: the values are those of
\* two's complement in IntBits bits and the sums wrap around as int64 sums do.
IntBits == 3

MaxInt == 2 ^ (IntBits - 1) - 1
MinInt == -(2 ^ (IntBits - 1))

\* Go's + on signed integers of this width.
WrapAdd(x, y) == ((x + y - MinInt) % (2 ^ IntBits)) + MinInt

\* The values a field takes: nothing, a little, and the two ends.
FieldValues == {0, 1, MaxInt, MinInt}

FollowerStoreWriteBytesValues ==
  [NumEntries : FieldValues, WriteBytes : FieldValues, IngestedBytes : FieldValues]

\* A Merge that takes the entry count of the value merged in.
MutMergeOverwritesEntries(f, from) ==
  [ NumEntries    |-> from.NumEntries,
    WriteBytes    |-> WrapAdd(f.WriteBytes, from.WriteBytes),
    IngestedBytes |-> WrapAdd(f.IngestedBytes, from.IngestedBytes) ]

\* Lines 405-409: f after f.Merge(from).
Merge(f, from) ==
  [ NumEntries    |-> WrapAdd(f.NumEntries, from.NumEntries),
    WriteBytes    |-> WrapAdd(f.WriteBytes, from.WriteBytes),
    IngestedBytes |-> WrapAdd(f.IngestedBytes, from.IngestedBytes) ]

\* a and b merged in both orders, and b and c.
MergePairs ==
  /\ merged.step = 0
  /\ merged' = [merged EXCEPT
                  !.step = 1,
                  !.ab = Merge(reports.a, reports.b),
                  !.ba = Merge(reports.b, reports.a),
                  !.bc = Merge(reports.b, reports.c)]
  /\ UNCHANGED << admitVars, stabVars, pacerVars, weightVars, reports, followerCall >>

\* The three merged from the left and from the right, and in every order
\* into a zero value.
MergeTriples ==
  /\ merged.step = 1
  /\ merged' = [merged EXCEPT
                  !.step = 2,
                  !.abc = Merge(merged.ab, reports.c),
                  !.a_bc = Merge(reports.a, merged.bc),
                  !.folds =
                    { Merge(Merge(Merge(ZeroFollowerStoreWriteBytes,
                                        reports[p[1]]), reports[p[2]]),
                            reports[p[3]]) :
                        p \in { q \in [1..3 -> {"a", "b", "c"}] :
                                  \A i, j \in 1..3 : i # j => q[i] # q[j] } }]
  /\ UNCHANGED << admitVars, stabVars, pacerVars, weightVars, reports, followerCall >>

\* A check that takes one zero count for nothing written.
MutNothingWrittenEither(f) == f.WriteBytes = 0 \/ f.IngestedBytes = 0

\* Line 378.
NothingWritten(f) == f.WriteBytes = 0 /\ f.IngestedBytes = 0

\* One call of BypassedWorkDone on the queue of a store.
BypassedWorkDone(q, numEntries, info) ==
  [q |-> q, numEntries |-> numEntries, info |-> info]

\* Lines 375-387.
FollowerStoreWriteBytes(storeID, followerWriteBytes) ==
  /\ LET storeAdmissionQ == TryGetQueueForStore(storeID)
         calls == IF NothingWritten(followerWriteBytes)
                    THEN << >>
                    ELSE IF storeAdmissionQ = Nil
                           THEN << >>
                           ELSE << BypassedWorkDone(
                                     storeAdmissionQ,
                                     followerWriteBytes.NumEntries,
                                     [ WriteBytes |-> followerWriteBytes.WriteBytes,
                                       IngestedBytes |->
                                         followerWriteBytes.IngestedBytes ]) >>
     IN  followerCall' = [ called |-> TRUE, storeID |-> storeID,
                           followerWriteBytes |-> followerWriteBytes,
                           calls |-> calls ]
  /\ UNCHANGED << admitVars, stabVars, pacerVars, weightVars, reports, merged >>

(***************************************************************************)
(* InteractionEnv.Stabilize and splitMsgs,                                 *)
(* interaction_env_handler_stabilize.go lines 49-127.                      *)
(***************************************************************************)
\* How many things (a Ready, a message, an entry of AppendWork or of
\* ApplyWork) the nodes may produce while Stabilize runs.
MaxWork == 2

\* Lines 65, 76, 86 and 100: the node at index idx has ID idx + 1.
NodeID(idx) == idx + 1

NodeIDs == { NodeID(idx) : idx \in NodeIdxs }

\* The errors ProcessReady and ProcessAppendThread may return.
Errors == {"err1", "err2"}

\* The arguments of Stabilize: no index, or some indexes in any order, none
\* of them twice.
IdxArgs ==
  { idxs \in UNION { [1..n -> NodeIdxs] : n \in 0..NumNodes } :
      \A j, k \in 1..Len(idxs) : j # k => idxs[j] # idxs[k] }

\* raftpb.Message, as far as splitMsgs reads it.
Message(from, to) == [From |-> from, To |-> to, Type |-> 0]

\* raft.IsLocalMsgTarget: the IDs of the nodes are no local targets.
IsLocalMsgTarget(id) == id \notin NodeIDs

\* Lines 130-132.
isLocalMsg(msg) ==
  \/ msg.From = msg.To
  \/ IsLocalMsgTarget(msg.From)
  \/ IsLocalMsgTarget(msg.To)

\* Line 120.
IsToMsg(msg, to, typ, drop) ==
  /\ msg.To = to
  /\ ~(drop /\ isLocalMsg(msg))
  /\ (typ < 0 \/ msg.Type = typ)

\* Lines 117-127: the messages for the recipient and the remainder, both in
\* the order of msgs.
RECURSIVE splitMsgs(_, _, _, _)
splitMsgs(msgs, to, typ, drop) ==
  IF msgs = << >>
    THEN [toMsgs |-> << >>, rmdr |-> << >>]
    ELSE LET msg == Head(msgs)
             rest == splitMsgs(Tail(msgs), to, typ, drop)
         IN  IF IsToMsg(msg, to, typ, drop)
               THEN [rest EXCEPT !.toMsgs = << msg >> \o @]
               ELSE [rest EXCEPT !.rmdr = << msg >> \o @]

\* A Stabilize that takes no index to mean no node.
MutSelectsOnlyGiven(idxs) == idxs

\* Lines 50-59: the nodes given, or all of them.
SelectedNodes(idxs) ==
  IF Len(idxs) # 0
    THEN idxs
    ELSE [k \in 1..NumNodes |-> k - 1]

\* Lines 61-63: a pass over the nodes begins.
NewPass(st) == [st EXCEPT !.phase = "ready", !.i = 1, !.done = TRUE]

NextPhase(phase) ==
  CASE phase = "ready" -> "deliver"
    [] phase = "deliver" -> "append"
    [] phase = "append" -> "apply"
    [] OTHER -> "end"

\* The loop over the nodes goes on with the next node, or the next loop
\* begins; after the fourth loop, lines 109-111 return nil or begin a new
\* pass.
Advance(st) ==
  IF st.i < Len(st.nodes)
    THEN [st EXCEPT !.i = @ + 1]
    ELSE IF NextPhase(st.phase) # "end"
      THEN [st EXCEPT !.phase = NextPhase(st.phase), !.i = 1]
      ELSE IF st.done
        THEN [st EXCEPT !.pc = "returned", !.ret = NilError]
        ELSE NewPass(st)

\* Lines 49-62.  Without nodes the four loops have nothing to visit.
Stabilize(idxs) ==
  /\ stab.pc = "idle"
  /\ LET nodes == SelectedNodes(idxs)
         st == NewPass([stab EXCEPT !.pc = "running", !.idxs = idxs,
                                    !.nodes = nodes])
     IN  stab' = IF nodes = << >>
                   THEN [st EXCEPT !.pc = "returned", !.ret = NilError]
                   ELSE st
  /\ UNCHANGED << admitVars, pacerVars, weightVars, followerVars, envNodes,
                  envMessages, lastStep, work >>

\* What a step of a node may leave behind: an error, a Ready, a message to
\* a node (0 for none), an entry of AppendWork, an entry of ApplyWork.
Outcomes ==
  [ err : {NilError} \cup Errors, ready : BOOLEAN, msgTo : {0} \cup NodeIDs,
    app : 0..1, apply : 0..1 ]

NoOutcome ==
  [err |-> NilError, ready |-> FALSE, msgTo |-> 0, app |-> 0, apply |-> 0]

\* What the outcome takes of the work the nodes may still produce.
Cost(out) ==
  (IF out.ready THEN 1 ELSE 0) + (IF out.msgTo # 0 THEN 1 ELSE 0)
    + out.app + out.apply

\* The step has sent its message, if any.
Sent(msgs, idx, out) ==
  IF out.msgTo # 0 THEN Append(msgs, Message(NodeID(idx), out.msgTo)) ELSE msgs

\* Lines 63-74: one node of the first loop.  ProcessReady takes the Ready of
\* the node and may leave anything behind.
ReadyStep(out) ==
  /\ stab.pc = "running"
  /\ stab.phase = "ready"
  /\ LET rn == stab.nodes[stab.i]
     IN  IF envNodes[rn].HasReady
           THEN /\ Cost(out) <= work
                /\ envNodes' = [envNodes EXCEPT ![rn] =
                                  [ HasReady   |-> out.ready,
                                    AppendWork |-> @.AppendWork + out.app,
                                    ApplyWork  |-> @.ApplyWork + out.apply ]]
                /\ envMessages' = Sent(envMessages, rn, out)
                /\ work' = work - Cost(out)
                /\ lastStep' = [op |-> "ProcessReady", idx |-> rn, err |-> out.err]
                /\ stab' = IF out.err # NilError
                             THEN [stab EXCEPT !.pc = "returned", !.ret = out.err]
                             ELSE Advance([stab EXCEPT !.done = FALSE])
           ELSE /\ out = NoOutcome
                /\ stab' = Advance(stab)
                /\ UNCHANGED << envNodes, envMessages, work, lastStep >>
  /\ UNCHANGED << admitVars, pacerVars, weightVars, followerVars >>

\* Line 79: len(msgs) > 0.
HasMsgs(msgs) == Len(msgs) > 0

\* Lines 75-84: one node of the second loop.  DeliverMsgs takes the messages
\* for the node out of env.Messages and steps the node with them, which may
\* leave it with a Ready.
DeliverStep(ready) ==
  /\ stab.pc = "running"
  /\ stab.phase = "deliver"
  /\ LET rn == stab.nodes[stab.i]
         id == NodeID(rn)
         split == splitMsgs(envMessages, id, -1, FALSE)
     IN  IF HasMsgs(split.toMsgs)
           THEN /\ envMessages' = split.rmdr
                /\ envNodes' = [envNodes EXCEPT ![rn].HasReady = @ \/ ready]
                /\ lastStep' = [op |-> "DeliverMsgs", idx |-> rn, err |-> NilError]
                /\ stab' = Advance([stab EXCEPT !.done = FALSE])
           ELSE /\ ~ready
                /\ stab' = Advance(stab)
                /\ UNCHANGED << envNodes, envMessages, lastStep >>
  /\ UNCHANGED << admitVars, pacerVars, weightVars, followerVars, work >>

\* Lines 85-98: one node of the third loop, one call of ProcessAppendThread
\* at a time.  The call takes an entry off AppendWork and may send a message.
AppendStep(out) ==
  /\ stab.pc = "running"
  /\ stab.phase = "append"
  /\ ~out.ready /\ out.app = 0 /\ out.apply = 0
  /\ LET rn == stab.nodes[stab.i]
     IN  IF envNodes[rn].AppendWork > 0
           THEN /\ Cost(out) <= work
                /\ envNodes' = [envNodes EXCEPT ![rn].AppendWork = @ - 1]
                /\ envMessages' = Sent(envMessages, rn, out)
                /\ work' = work - Cost(out)
                /\ lastStep' = [ op |-> "ProcessAppendThread", idx |-> rn,
                                 err |-> out.err ]
                /\ stab' = IF out.err # NilError
                             THEN [stab EXCEPT !.pc = "returned", !.ret = out.err]
                             ELSE IF envNodes'[rn].AppendWork > 0
                               THEN stab
                               ELSE Advance([stab EXCEPT !.done = FALSE])
           ELSE /\ out = NoOutcome
                /\ stab' = Advance(stab)
                /\ UNCHANGED << envNodes, envMessages, work, lastStep >>
  /\ UNCHANGED << admitVars, pacerVars, weightVars, followerVars >>

\* Lines 99-108: one node of the fourth loop, one call of ProcessApplyThread
\* at a time.  The call takes an entry off ApplyWork and may send a message.
ApplyStep(out) ==
  /\ stab.pc = "running"
  /\ stab.phase = "apply"
  /\ ~out.ready /\ out.app = 0 /\ out.apply = 0 /\ out.err = NilError
  /\ LET rn == stab.nodes[stab.i]
     IN  IF envNodes[rn].ApplyWork > 0
           THEN /\ Cost(out) <= work
                /\ envNodes' = [envNodes EXCEPT ![rn].ApplyWork = @ - 1]
                /\ envMessages' = Sent(envMessages, rn, out)
                /\ work' = work - Cost(out)
                /\ lastStep' = [ op |-> "ProcessApplyThread", idx |-> rn,
                                 err |-> NilError ]
                /\ stab' = IF envNodes'[rn].ApplyWork > 0
                             THEN stab
                             ELSE Advance([stab EXCEPT !.done = FALSE])
           ELSE /\ out = NoOutcome
                /\ stab' = Advance(stab)
                /\ UNCHANGED << envNodes, envMessages, work, lastStep >>
  /\ UNCHANGED << admitVars, pacerVars, weightVars, followerVars >>

(***************************************************************************)
(* Specifications.                                                         *)
(***************************************************************************)
\* One call of AdmitKVWork, for every tenant and every request.
SingleCall == {1}

Next ==
  \/ \E r \in SingleCall, tenantID \in TenantIDs, b \in BatchRequests :
       AdmitKVWork(r, tenantID, b)
  \/ \E r \in SingleCall : Classify(r)
  \/ \E r \in SingleCall : StoreAdmit(r)
  \/ \E r \in SingleCall : WorkAdmit(r)
  \/ \E r \in SingleCall : RunDeferred(r)
  \/ \E r \in SingleCall : Return(r)
  \/ \E r \in SingleCall, writeBytes \in WriteBytesArgs :
       AdmittedKVWorkDone(r, writeBytes)
  \/ Tick

Spec == Init /\ [][Next]_vars

\* Concurrent calls on the same three queues.  The classification of a
\* request decides nothing of the routing, so the requests differ in what
\* the routing reads: IsWrite and the single request of the batch.  All name
\* the store that has a queue.
RoutingRequests ==
  { b \in BatchRequests :
      /\ ~b.IsAdmin
      /\ b.Source = "ROOT_KV"
      /\ b.Priority = NormalPri
      /\ b.CreateTime # 0
      /\ b.StoreID \in StoresWithQueue }

InitConc ==
  /\ Init
  /\ queuesPresent
  /\ ~bulkOnly

NextConc ==
  \/ \E r \in ReqIds, b \in RoutingRequests :
       AdmitKVWork(r, SystemTenantID, b)
  \/ \E r \in ReqIds : Classify(r)
  \/ \E r \in ReqIds : StoreAdmit(r)
  \/ \E r \in ReqIds : WorkAdmit(r)
  \/ \E r \in ReqIds : RunDeferred(r)
  \/ \E r \in ReqIds : Return(r)
  \/ \E r \in ReqIds, writeBytes \in WriteBytesArgs :
       AdmittedKVWorkDone(r, writeBytes)

SpecConc == InitConc /\ [][NextConc]_vars

\* One loop and its Pacer: nil until AdmitRangefeedRequest hands one out,
\* then paced and closed in any order, with handles that run over their
\* grant and admissions that fail at will.
InitPacer ==
  /\ Init
  /\ queuesPresent
  /\ ~bulkOnly

NextPacer ==
  \/ AdmitRangefeedRequest
  \/ \E overLimit \in BOOLEAN, admitOK \in BOOLEAN : Pace(overLimit, admitOK)
  \/ Close

SpecPacer == InitPacer /\ [][NextPacer]_vars

\* The weight loop, the ticker, the two settings and the stopper.
InitWeights ==
  /\ Init
  /\ queuesPresent
  /\ ~bulkOnly

NextWeights ==
  \/ SetTenantWeightProvider
  \/ TickerFires
  \/ Quiesce
  \/ \E v \in BOOLEAN : SetKVTenantWeightsEnabled(v)
  \/ \E v \in BOOLEAN : SetKVStoresTenantWeightsEnabled(v)
  \/ TickBegin
  \/ TickCheck
  \/ \E weights \in TenantWeights : TickPoll(weights)
  \/ Quit

SpecWeights == InitWeights /\ [][NextWeights]_vars

\* Three partial reports merged in every order.
InitMerge ==
  /\ InitAdmit
  /\ queuesPresent
  /\ ~bulkOnly
  /\ InitNoPacer
  /\ InitNoWeightLoop
  /\ reports \in [ a : FollowerStoreWriteBytesValues,
                   b : FollowerStoreWriteBytesValues,
                   c : FollowerStoreWriteBytesValues ]
  /\ merged = NothingMerged
  /\ followerCall = NoFollowerCall
  /\ InitNoStabilize

NextMerge ==
  \/ MergePairs
  \/ MergeTriples

SpecMerge == InitMerge /\ [][NextMerge]_vars

\* Calls of FollowerStoreWriteBytes for every store and every value.
InitFollower ==
  /\ Init
  /\ queuesPresent
  /\ ~bulkOnly

NextFollower ==
  \E storeID \in StoreIDs, followerWriteBytes \in FollowerStoreWriteBytesValues :
    FollowerStoreWriteBytes(storeID, followerWriteBytes)

SpecFollower == InitFollower /\ [][NextFollower]_vars

\* One call of Stabilize, for every choice of nodes, on an environment in
\* which any node may have a Ready and the nodes produce what they like.
InitStabilize ==
  /\ InitAdmit
  /\ queuesPresent
  /\ ~bulkOnly
  /\ InitNoPacer
  /\ InitNoWeightLoop
  /\ InitNoFollower
  /\ envNodes \in [NodeIdxs -> [ HasReady : BOOLEAN, AppendWork : {0},
                                 ApplyWork : {0} ]]
  /\ envMessages = << >>
  /\ stab = NoStabilize
  /\ lastStep = NoStep
  /\ work = MaxWork

NextStabilize ==
  \/ \E idxs \in IdxArgs : Stabilize(idxs)
  \/ \E out \in Outcomes : ReadyStep(out)
  \/ \E ready \in BOOLEAN : DeliverStep(ready)
  \/ \E out \in Outcomes : AppendStep(out)
  \/ \E out \in Outcomes : ApplyStep(out)

SpecStabilize == InitStabilize /\ [][NextStabilize]_vars

\* The goroutine is scheduled: a tick body that has begun runs to its end.
\* A select with several cases ready picks one at random, so the quiesce
\* case, ready whenever the loop is back at the select, is taken at last.
FairSpecWeights ==
  /\ SpecWeights
  /\ WF_vars(TickCheck)
  /\ WF_vars(\E weights \in TenantWeights : TickPoll(weights))
  /\ SF_vars(Quit)


(***************************************************************************)
(* What a call has done, read off its trace.                               *)
(***************************************************************************)
IsAcquisition(e) == e.op = "Admit" /\ e.tok # Nil
IsCompletion(e) == e.op = "AdmittedWorkDone" /\ e.tok # Nil
IsStoreCompletion(e) == e.op = "AdmittedWorkDone" /\ e.q = "store"
IsAdmitCall(e) == e.op = "Admit"

\* The tokens the call acquired: Admit calls that granted one.
Acquired(r) == SelectSeq(trace[r], IsAcquisition)
\* The completions the call made on a token (a nil elastic handle passed to
\* AdmittedWorkDone completes nothing).
Completed(r) == SelectSeq(trace[r], IsCompletion)
StoreCompletions(r) == SelectSeq(trace[r], IsStoreCompletion)
AdmitCalls(r) == SelectSeq(trace[r], IsAdmitCall)

HasEvent(r, q, op, res) ==
  \E i \in 1..Len(trace[r]) :
    trace[r][i].q = q /\ trace[r][i].op = op /\ trace[r][i].res = res

\* The store token granted to the call is outstanding in some store queue.
StoreTokenOutstanding(r) == \E s \in StoresWithQueue : r \in storeQ[s]

Returned(r) == pc[r] \in {"returned", "done"}
ReturnedError(r) == Returned(r) /\ result[r].retErr

(***************************************************************************)
(* C1.  Whenever a call of AdmitKVWork has returned an error, with other   *)
(* calls running on the same queues and any Admit free to fail, no token   *)
(* granted to that call is outstanding in the store queue or in the        *)
(* elastic CPU queue, and the Handle returned is Handle{}.                 *)
(***************************************************************************)
C1_ErrorLeavesNoToken ==
  \A r \in ReqIds :
    ReturnedError(r) =>
      /\ result[r].handle = EmptyHandle
      /\ ~StoreTokenOutstanding(r)
      /\ r \notin elasticQ

\* A call that was granted a store token has returned an error while
\* another call holds a token of the same store queue.
C1_Witness ==
  \E r, o \in ReqIds :
    /\ r # o
    /\ ReturnedError(r)
    /\ HasEvent(r, "store", "Admit", "enabled")
    /\ StoreTokenOutstanding(o)

(***************************************************************************)
(* C2.  When the store queue admitted the call with charging and the       *)
(* Admit of the elastic CPU queue (single export) or of the general queue  *)
(* (any other request) then failed, the call has, by the time it returns   *)
(* the error, called the store queue's AdmittedWorkDone exactly once, with *)
(* the token granted to it and the zero StoreWorkDoneInfo: its calls are   *)
(* the store Admit, the failed Admit, the store completion, in this order. *)
(***************************************************************************)
C2_RollbackOfStoreToken ==
  \A r \in ReqIds :
    (ReturnedError(r) /\ HasEvent(r, "store", "Admit", "enabled")) =>
      LET tok == trace[r][1].tok
          q == IF IsSingleExportRequest(req[r].ba) THEN "elastic" ELSE "kv"
      IN  /\ tok # Nil
          /\ trace[r] =
               << Event("store", "Admit", tok, "enabled", ZeroDoneInfo),
                  Event(q, "Admit", Nil, "err", ZeroDoneInfo),
                  Event("store", "AdmittedWorkDone", tok, "done", ZeroDoneInfo) >>

\* Both cases have happened: an export whose elastic admission failed and
\* an ordinary request whose general admission failed, each after the
\* store queue had granted a token.
C2_Witness ==
  \E r, o \in ReqIds :
    /\ ReturnedError(r) /\ ReturnedError(o)
    /\ HasEvent(r, "store", "Admit", "enabled")
    /\ HasEvent(o, "store", "Admit", "enabled")
    /\ HasEvent(r, "elastic", "Admit", "err")
    /\ HasEvent(o, "kv", "Admit", "err")

(***************************************************************************)
(* C3.  When a call of AdmitKVWork that succeeded and acquired k tokens    *)
(* (a charged store token, an elastic CPU handle, a general-queue          *)
(* admission that asks for its completion) has been followed by its        *)
(* AdmittedKVWorkDone, the call and the completion together have made      *)
(* exactly k completions, one for each token acquired, and k is at most 2. *)
(* Until AdmittedKVWorkDone a successful call has completed nothing.       *)
(***************************************************************************)
C3_ExactlyOnceCompletion ==
  \A r \in ReqIds :
    /\ (pc[r] = "done") =>
         /\ Len(Completed(r)) = Len(Acquired(r))
         /\ Len(Acquired(r)) <= 2
         /\ \A i \in 1..Len(Acquired(r)) :
              Cardinality({ j \in 1..Len(Completed(r)) :
                              /\ Completed(r)[j].q = Acquired(r)[i].q
                              /\ Completed(r)[j].tok = Acquired(r)[i].tok }) = 1
    /\ (pc[r] = "returned" /\ ~result[r].retErr) => Len(Completed(r)) = 0

\* Completed calls with two tokens, with one and with none.
C3_Witness ==
  \E r, o \in ReqIds :
    /\ pc[r] = "done" /\ Len(Acquired(r)) = 2
    /\ pc[o] = "done" /\ Len(Acquired(o)) = 0


\* The call has classified its request (lines 179-206 have run).
Classified(r) == pc[r] \in {"store", "admit", "deferred", "returned", "done"}
                   /\ queuesPresent

\* The Handle holds nothing of the store queue.
NoStoreTokenIn(h) == h.storeAdmissionQ = Nil /\ h.storeWorkHandle = Nil

(***************************************************************************)
(* C4, as stated.  For a request whose store has no queue, or that is an   *)
(* admin request, or that is classified bypass=true, or that is a single   *)
(* HeartbeatTxn request, the Handle returned holds no store queue and no   *)
(* store token and the call never completes anything on the store queue.   *)
(***************************************************************************)
C4_Original ==
  \A r \in ReqIds :
    ( /\ Returned(r)
      /\ \/ TryGetQueueForStore(req[r].ba.StoreID) = Nil
         \/ IsAdmin(req[r].ba)
         \/ (Classified(r) /\ local[r].admissionInfo.BypassAdmission)
         \/ IsSingleHeartbeatTxnRequest(req[r].ba) )
    => /\ NoStoreTokenIn(result[r].handle)
       /\ Len(StoreCompletions(r)) = 0

(***************************************************************************)
(* C4, amended.  For a request whose store has no queue, or that is not a  *)
(* write, or that is a single HeartbeatTxn request, the Handle returned    *)
(* holds no store queue and no store token, the store queue is never       *)
(* asked, and neither AdmitKVWork nor AdmittedKVWorkDone completes         *)
(* anything on the store queue.                                            *)
(***************************************************************************)
C4_NoStoreTokenWhenNotSubject ==
  \A r \in ReqIds :
    ( /\ pc[r] # "idle"
      /\ \/ TryGetQueueForStore(req[r].ba.StoreID) = Nil
         \/ ~IsWrite(req[r].ba)
         \/ IsSingleHeartbeatTxnRequest(req[r].ba) )
    => /\ NoStoreTokenIn(result[r].handle)
       /\ NoStoreTokenIn(ah[r])
       /\ Len(StoreCompletions(r)) = 0
       /\ ~StoreTokenOutstanding(r)
       /\ \A i \in 1..Len(trace[r]) : trace[r][i].q # "store"

\* AdmittedKVWorkDone has run for a single HeartbeatTxn write to a store
\* that has a queue.
C4_Witness ==
  \E r \in ReqIds :
    /\ pc[r] = "done"
    /\ queuesPresent
    /\ IsWrite(req[r].ba)
    /\ IsSingleHeartbeatTxnRequest(req[r].ba)
    /\ TryGetQueueForStore(req[r].ba.StoreID) # Nil

(***************************************************************************)
(* C5, as stated.  When the store queue admitted the write without         *)
(* charging, the Handle holds no store token and the call has gone on to   *)
(* ask the elastic CPU queue or the general queue.                         *)
(***************************************************************************)
C5_Original ==
  \A r \in ReqIds :
    (Returned(r) /\ HasEvent(r, "store", "Admit", "disabled")) =>
      /\ NoStoreTokenIn(result[r].handle)
      /\ \E i \in 1..Len(trace[r]) :
           trace[r][i].op = "Admit" /\ trace[r][i].q \in {"elastic", "kv"}

(***************************************************************************)
(* C5, amended.  When the store queue admitted the write without           *)
(* charging, the call records no store token and asks neither the elastic  *)
(* CPU queue nor the general queue: the store Admit is its only queue      *)
(* call, and it returns the Handle that holds the tenant alone, without    *)
(* error.                                                                  *)
(***************************************************************************)
C5_DisabledStoreAdmissionEndsAdmission ==
  \A r \in ReqIds :
    (HasEvent(r, "store", "Admit", "disabled") /\ pc[r] # "admit") =>
      /\ AdmitCalls(r) = << Event("store", "Admit", Nil, "disabled", ZeroDoneInfo) >>
      /\ ~result[r].retErr
      /\ result[r].handle = NewHandle(req[r].tenantID)
      /\ NoStoreTokenIn(ah[r])

\* A single export write has been admitted by the store queue without
\* charging and the call has returned.
C5_Witness ==
  \E r \in ReqIds :
    /\ pc[r] = "returned"
    /\ HasEvent(r, "store", "Admit", "disabled")
    /\ IsSingleExportRequest(req[r].ba)


(***************************************************************************)
(* C6, as stated.  A request whose declared source is OTHER is classified  *)
(* bypass=true, whatever its tenant and its admin flag.                    *)
(***************************************************************************)
C6_Original ==
  \A r \in ReqIds :
    (Classified(r) /\ req[r].ba.Source = "OTHER") =>
      local[r].admissionInfo.BypassAdmission

(***************************************************************************)
(* C6, amended.  A request of the system tenant whose declared source is   *)
(* OTHER is classified bypass=true, whatever its admin flag.  A request of *)
(* another tenant has its source forced to FROM_SQL before the source is   *)
(* looked at, so its declared source OTHER decides nothing: it is          *)
(* classified bypass=true exactly when the bulk-only setting is on and its *)
(* priority is at least normal.                                            *)
(***************************************************************************)
C6_OtherSourceBypasses ==
  \A r \in ReqIds :
    (Classified(r) /\ req[r].ba.Source = "OTHER") =>
      IF IsSystemTenantID(req[r].tenantID)
        THEN /\ local[r].source = "OTHER"
             /\ local[r].admissionInfo.BypassAdmission
        ELSE /\ local[r].source = "FROM_SQL"
             /\ local[r].admissionInfo.BypassAdmission
                  <=> (bulkOnly /\ req[r].ba.Priority >= NormalPri)

\* A request of the system tenant that is not an admin request, declares
\* OTHER and is below normal priority has been classified.
C6_Witness ==
  \E r \in ReqIds :
    /\ Classified(r)
    /\ req[r].ba.Source = "OTHER"
    /\ IsSystemTenantID(req[r].tenantID)
    /\ ~IsAdmin(req[r].ba)
    /\ req[r].ba.Priority < NormalPri
    /\ local[r].admissionInfo.BypassAdmission

(***************************************************************************)
(* C7.  With the bulk-only setting off and a declared source other than    *)
(* OTHER, an admin request of the system tenant is classified bypass=true, *)
(* and an admin request of another tenant is classified bypass=false with  *)
(* its source forced to FROM_SQL.                                          *)
(***************************************************************************)
C7_AdminBypassByTenant ==
  \A r \in ReqIds :
    ( /\ Classified(r)
      /\ ~bulkOnly
      /\ req[r].ba.Source # "OTHER"
      /\ IsAdmin(req[r].ba) )
    => IF IsSystemTenantID(req[r].tenantID)
         THEN local[r].admissionInfo.BypassAdmission
         ELSE /\ ~local[r].admissionInfo.BypassAdmission
              /\ local[r].source = "FROM_SQL"

\* An admin request that declares ROOT_KV has been classified for a tenant
\* that is not the system tenant, with the bulk-only setting off.
C7_Witness ==
  \E r \in ReqIds :
    /\ Classified(r)
    /\ ~bulkOnly
    /\ req[r].ba.Source = "ROOT_KV"
    /\ IsAdmin(req[r].ba)
    /\ ~IsSystemTenantID(req[r].tenantID)
    /\ local[r].source = "FROM_SQL"

(***************************************************************************)
(* C8.  With the bulk-only setting on, a request whose priority is at      *)
(* least normal is classified bypass=true for every tenant, admin flag and *)
(* declared source; a request whose priority is below normal is classified *)
(* as the rules before it classify it: bypass=true exactly for a request   *)
(* of the system tenant that is an admin request or declares OTHER.        *)
(***************************************************************************)
C8_BulkOnlyBypass ==
  \A r \in ReqIds :
    (Classified(r) /\ bulkOnly) =>
      IF req[r].ba.Priority >= NormalPri
        THEN local[r].admissionInfo.BypassAdmission
        ELSE local[r].admissionInfo.BypassAdmission
               <=> /\ IsSystemTenantID(req[r].tenantID)
                   /\ (IsAdmin(req[r].ba) \/ req[r].ba.Source = "OTHER")

\* With the setting on, a request of exactly normal priority that no
\* earlier rule bypasses has been classified bypass=true.
C8_Witness ==
  \E r \in ReqIds :
    /\ Classified(r)
    /\ bulkOnly
    /\ req[r].ba.Priority = NormalPri
    /\ ~IsSystemTenantID(req[r].tenantID)
    /\ local[r].admissionInfo.BypassAdmission

(***************************************************************************)
(* C9.  The create-time of the AdmissionInfo: for a request that is not    *)
(* bypassed and declares create-time 0 it is a clock reading no earlier    *)
(* than the clock when AdmitKVWork was called; for a bypassed request that *)
(* declares 0 it is 0; a declared create-time other than 0 is kept.        *)
(***************************************************************************)
C9_CreateTimeDefault ==
  \A r \in ReqIds :
    Classified(r) =>
      LET info == local[r].admissionInfo
          declared == req[r].ba.CreateTime
      IN  /\ (~info.BypassAdmission /\ declared = 0) =>
                (info.CreateTime >= callTime[r] /\ info.CreateTime # 0)
          /\ (info.BypassAdmission /\ declared = 0) => info.CreateTime = 0
          /\ (declared # 0) => info.CreateTime = declared

\* The clock has advanced between the call and the classification of a
\* request that is not bypassed and declares create-time 0.
C9_Witness ==
  \E r \in ReqIds :
    /\ Classified(r)
    /\ ~local[r].admissionInfo.BypassAdmission
    /\ req[r].ba.CreateTime = 0
    /\ local[r].admissionInfo.CreateTime > callTime[r]


\* The queues whose Admit the call has invoked, in the order of the calls.
AdmitQueues(r) == [i \in 1..Len(AdmitCalls(r)) |-> AdmitCalls(r)[i].q]

\* How many of them are the elastic CPU queue or the general queue.
NumWorkQueueAdmits(r) ==
  Cardinality({ i \in 1..Len(AdmitCalls(r)) :
                  AdmitQueues(r)[i] \in {"elastic", "kv"} })

(***************************************************************************)
(* C10, as stated, for calls that returned without error with the queues   *)
(* present.  The call asked the store queue first, only for a write that   *)
(* is not a single HeartbeatTxn request, and then exactly one of the       *)
(* elastic CPU queue (single export) and the general queue (any other      *)
(* request), at most two queues in all.                                    *)
(***************************************************************************)
C10_Original ==
  \A r \in ReqIds :
    (Returned(r) /\ ~result[r].retErr /\ queuesPresent) =>
      LET qs == AdmitQueues(r)
          n == Len(AdmitCalls(r))
      IN  /\ n \in {1, 2}
          /\ (n = 2) => qs[1] = "store"
          /\ (qs[1] = "store") =>
                (IsWrite(req[r].ba) /\ ~IsSingleHeartbeatTxnRequest(req[r].ba))
          /\ NumWorkQueueAdmits(r) = 1
          /\ qs[n] = IF IsSingleExportRequest(req[r].ba) THEN "elastic" ELSE "kv"

(***************************************************************************)
(* C10, amended.  Within one call the store queue is asked first, and only *)
(* for a write that is not a single HeartbeatTxn request; then at most one *)
(* of the elastic CPU queue and the general queue is asked: none when the  *)
(* queues are absent, when the store Admit failed or when the store queue  *)
(* admitted without charging, and otherwise the elastic CPU queue for a    *)
(* single export request and the general queue for any other request.  A   *)
(* single export never asks the general queue, any other request never the *)
(* elastic CPU queue, and no call asks more than two queues.               *)
(***************************************************************************)
C10_ConsultationOrder ==
  \A r \in ReqIds :
    LET qs == AdmitQueues(r)
        n == Len(AdmitCalls(r))
        export == IsSingleExportRequest(req[r].ba)
    IN  /\ n <= 2
        /\ \A i \in 1..n :
             /\ (qs[i] = "store") =>
                  /\ i = 1
                  /\ IsWrite(req[r].ba)
                  /\ ~IsSingleHeartbeatTxnRequest(req[r].ba)
             /\ (qs[i] = "kv") => ~export
             /\ (qs[i] = "elastic") => export
        /\ NumWorkQueueAdmits(r) <= 1
        /\ Returned(r) =>
             ( NumWorkQueueAdmits(r) = 1
                 <=> /\ queuesPresent
                     /\ ~HasEvent(r, "store", "Admit", "err")
                     /\ ~HasEvent(r, "store", "Admit", "disabled") )

\* A call has asked the store queue and then the elastic CPU queue and has
\* returned without error.
C10_Witness ==
  \E r \in ReqIds :
    /\ Returned(r)
    /\ ~result[r].retErr
    /\ AdmitQueues(r) = << "store", "elastic" >>


(***************************************************************************)
(* C11.  Without the queues, AdmitKVWork returns for every request the     *)
(* Handle that holds the tenant alone, with no token, no completion flag   *)
(* and no error, and asks no queue; AdmittedKVWorkDone on that Handle      *)
(* completes nothing on any queue.                                         *)
(***************************************************************************)
C11_PassThroughWithoutQueues ==
  \A r \in ReqIds :
    (~queuesPresent /\ pc[r] # "idle") =>
      /\ pc[r] \in {"deferred", "returned", "done"}
      /\ result[r] = [handle |-> NewHandle(req[r].tenantID), retErr |-> FALSE]
      /\ AdmitCalls(r) = << >>
      /\ Completed(r) = << >>
      /\ \A i \in 1..Len(trace[r]) : trace[r][i].q = "elastic" /\ trace[r][i].tok = Nil
      /\ elasticQ = {}
      /\ \A s \in StoresWithQueue : storeQ[s] = {}
      /\ \A t \in TenantIDs : kvQ[t] = 0

\* Without the queues, AdmittedKVWorkDone has run for a write of a single
\* export request to the store that would have a queue.
C11_Witness ==
  \E r \in ReqIds :
    /\ ~queuesPresent
    /\ pc[r] = "done"
    /\ IsWrite(req[r].ba)
    /\ IsSingleExportRequest(req[r].ba)
    /\ req[r].ba.StoreID \in StoresWithQueue

(***************************************************************************)
(* C12.  A call of AdmittedKVWorkDone with a Handle and writeBytes reports *)
(* completion on the general queue, for the tenant of the Handle, exactly  *)
(* when the general queue's Admit asked for it, and reports completion on  *)
(* the store queue exactly when the Handle holds a store token: for that   *)
(* token, with *writeBytes when writeBytes is not nil and with the zero    *)
(* StoreWorkDoneInfo otherwise.                                            *)
(***************************************************************************)
C12_CompletionReports ==
  [][ \A r \in ReqIds, writeBytes \in WriteBytesArgs :
        AdmittedKVWorkDone(r, writeBytes) =>
          LET h == result[r].handle
              n == Len(trace[r])
              new == SubSeq(trace'[r], n + 1, Len(trace'[r]))
              asked == \E i \in 1..n :
                         /\ trace[r][i].q = "kv"
                         /\ trace[r][i].op = "Admit"
                         /\ trace[r][i].tok # Nil
              kvDone == { i \in 1..Len(new) : new[i].q = "kv" }
              storeDone == { i \in 1..Len(new) : new[i].q = "store" }
          IN  /\ Cardinality(kvDone) = IF asked THEN 1 ELSE 0
              /\ kvQ' = IF asked
                          THEN [kvQ EXCEPT ![h.tenantID] = @ - 1]
                          ELSE kvQ
              /\ Cardinality(storeDone) = IF h.storeWorkHandle # Nil THEN 1 ELSE 0
              /\ \A i \in storeDone :
                   /\ new[i].tok = h.storeWorkHandle
                   /\ new[i].info = IF writeBytes.isNil
                                      THEN ZeroDoneInfo
                                      ELSE writeBytes.val
    ]_vars

\* AdmittedKVWorkDone has reported on the general queue and, with bytes
\* written, on the store queue.
C12_Witness ==
  \E r \in ReqIds :
    /\ pc[r] = "done"
    /\ \E i \in 1..Len(trace[r]) :
         trace[r][i].q = "kv" /\ trace[r][i].op = "AdmittedWorkDone"
    /\ \E i \in 1..Len(trace[r]) :
         /\ trace[r][i].q = "store" /\ trace[r][i].op = "AdmittedWorkDone"
         /\ trace[r][i].info.WriteBytes = 1

(***************************************************************************)
(* What the Pacer has done, read off its trace.                            *)
(***************************************************************************)
\* The queue methods the last call of Pace or Close invoked.
LastCallEvents == SubSeq(pacerTrace, lastCall.n + 1, Len(pacerTrace))
\* The queue methods invoked since the present run of Close calls began.
CloseRunEvents == SubSeq(pacerTrace, lastCall.runStart + 1, Len(pacerTrace))
PacerAcquired == SelectSeq(pacerTrace, IsAcquisition)
PacerReleased == SelectSeq(pacerTrace, IsCompletion)
IsFailedAdmit(e) == e.op = "Admit" /\ e.res = "err"
ReleaseOf(h) == Event("elastic", "AdmittedWorkDone", h, "ok", ZeroDoneInfo)

(***************************************************************************)
(* C13.  The Pacer is idle (cur nil) or holding (cur one handle), and the  *)
(* elastic queue never has more than one handle of it outstanding.  Pace   *)
(* on a holding Pacer whose handle is over its limit gives that handle     *)
(* back and then asks for a new one in the same call; on a holding Pacer   *)
(* whose handle is not over its limit it calls nothing and keeps the       *)
(* handle; on an idle Pacer it asks for one handle; and every Pace on a    *)
(* non-nil Pacer that returns no error leaves it holding the handle the    *)
(* call was granted or kept.                                               *)
(***************************************************************************)
C13_PacerTwoStates ==
  LET ev == LastCallEvents
      asksOnce(e) == /\ e.q = "elastic" /\ e.op = "Admit"
                     /\ e.res = "ok" => (e.tok # Nil /\ pacer.cur = e.tok)
  IN  /\ Cardinality(elasticQ) <= 1
      /\ elasticQ = IF pacer.cur = Nil THEN {} ELSE {pacer.cur}
      /\ (lastCall.op = "Pace" /\ ~pacer.isNil) =>
           /\ (lastCall.before # Nil /\ lastCall.overLimit) =>
                /\ Len(ev) = 2
                /\ ev[1] = ReleaseOf(lastCall.before)
                /\ asksOnce(ev[2])
                /\ pacer.cur # lastCall.before
           /\ (lastCall.before # Nil /\ ~lastCall.overLimit) =>
                /\ ev = << >>
                /\ pacer.cur = lastCall.before
           /\ lastCall.before = Nil =>
                /\ Len(ev) = 1
                /\ asksOnce(ev[1])
           /\ ~lastCall.err => pacer.cur # Nil

\* Pace has given back a handle that was over its limit and holds a new one.
C13_Witness ==
  /\ lastCall.op = "Pace"
  /\ lastCall.before # Nil
  /\ lastCall.overLimit
  /\ ~lastCall.err
  /\ pacer.cur # Nil

(***************************************************************************)
(* C14.  Close is idempotent: a run of Close calls, on a Pacer that holds  *)
(* a handle, on one that never acquired a handle or on a nil Pacer, calls  *)
(* AdmittedWorkDone on the elastic queue at most once in all, and not at   *)
(* all from the second Close on, for a Pacer without a handle or for a nil *)
(* Pacer; Close returns no error and leaves the Pacer idle.                *)
(***************************************************************************)
C14_CloseIdempotent ==
  lastCall.op = "Close" =>
    /\ Len(CloseRunEvents) <= 1
    /\ \A i \in 1..Len(CloseRunEvents) : IsCompletion(CloseRunEvents[i])
    /\ lastCall.prev = "Close" => LastCallEvents = << >>
    /\ (pacer.isNil \/ PacerAcquired = << >>) => CloseRunEvents = << >>
    /\ ~lastCall.err
    /\ pacer.cur = Nil
    /\ elasticQ = {}

\* Close has been called twice in a row on a Pacer that held a handle.
C14_Witness ==
  /\ lastCall.op = "Close"
  /\ lastCall.prev = "Close"
  /\ Len(CloseRunEvents) = 1

(***************************************************************************)
(* C20.  Whatever the sequence of Pace and Close calls, with admissions    *)
(* that fail and handles that run over their limit: the handles acquired   *)
(* are those released plus the one held, if any; a Pace whose admission    *)
(* fails returns the error and leaves the Pacer idle; after a Close no     *)
(* handle is outstanding; and no handle is released twice.                 *)
(***************************************************************************)
C20_PacerTokenAccounting ==
  /\ Len(PacerAcquired) = Len(PacerReleased) + (IF pacer.cur # Nil THEN 1 ELSE 0)
  /\ lastCall.op = "Pace" =>
       /\ lastCall.err <=> \E i \in 1..Len(LastCallEvents) :
                             IsFailedAdmit(LastCallEvents[i])
       /\ lastCall.err => (pacer.cur = Nil /\ elasticQ = {})
  /\ lastCall.op = "Close" => (pacer.cur = Nil /\ elasticQ = {})
  /\ \A i, j \in 1..Len(PacerReleased) :
       i # j => PacerReleased[i].tok # PacerReleased[j].tok
  /\ \A i \in 1..Len(pacerTrace) :
       IsCompletion(pacerTrace[i]) =>
         \E j \in 1..(i - 1) :
           IsAcquisition(pacerTrace[j]) /\ pacerTrace[j].tok = pacerTrace[i].tok

\* A Pace has failed after giving back the second handle of the Pacer.
C20_Witness ==
  /\ lastCall.op = "Pace"
  /\ lastCall.err
  /\ lastCall.before # Nil
  /\ Len(PacerReleased) = 2

(***************************************************************************)
(* C15.  Over any sequence of ticks and changes of the two settings: a     *)
(* tick that finds both settings disabled, after a tick that found both    *)
(* disabled, makes no call of GetTenantWeights; every other tick, the      *)
(* first one that finds a setting enabled again among them, makes exactly  *)
(* one.                                                                    *)
(***************************************************************************)
C15_ShortCircuit ==
  tickRec.state \in {"skipped", "polled"} =>
    tickRec.calls = IF /\ tickRec.prevAllDisabled
                       /\ tickRec.kvDisabled
                       /\ tickRec.kvStoresDisabled
                      THEN 0
                      ELSE 1

\* A tick that found both settings disabled, as the tick before it had, has
\* ended without a call.
C15_Witness ==
  /\ tickRec.state = "skipped"
  /\ tickRec.prevAllDisabled
  /\ tickRec.calls = 0

(***************************************************************************)
(* C16.  A tick that is not skipped pushes one node mapping to the general *)
(* queue and the same to the elastic CPU queue, the empty one when the     *)
(* node setting was disabled on that tick and the provider's otherwise;    *)
(* then, for each per store entry whose store has a queue and in the order *)
(* of the entries, it pushes the entry's mapping to that queue, the empty  *)
(* one when the per store setting was disabled on that tick; entries whose *)
(* store has no queue cause no push.                                       *)
(***************************************************************************)
StoreHasQueue(storeWeights) == storeWeights.StoreID \in StoresWithQueue

C16_WeightPushes ==
  tickRec.state = "polled" =>
    LET weights == tickRec.weights
        pushes == tickRec.pushes
        entries == SelectSeq(weights.Stores, StoreHasQueue)
    IN  /\ Len(pushes) = 2 + Len(entries)
        /\ pushes[1].q = "kv"
        /\ pushes[2].q = "elastic"
        /\ pushes[1].weights = pushes[2].weights
        /\ pushes[1].weights =
             IF tickRec.kvDisabled THEN NilWeights ELSE weights.Node
        /\ \A i \in 1..Len(entries) :
             /\ pushes[2 + i].q = "store"
             /\ pushes[2 + i].store = entries[i].StoreID
             /\ pushes[2 + i].weights =
                  IF tickRec.kvStoresDisabled
                    THEN NilWeights
                    ELSE entries[i].Weights

\* A tick with the node setting disabled and the per store setting enabled
\* has polled weights for the nodes, for a store without queue and for a
\* store with one.
C16_Witness ==
  /\ tickRec.state = "polled"
  /\ tickRec.kvDisabled
  /\ ~tickRec.kvStoresDisabled
  /\ tickRec.weights.Node = SomeWeights
  /\ Len(tickRec.weights.Stores) = 2
  /\ ~StoreHasQueue(tickRec.weights.Stores[1])
  /\ StoreHasQueue(tickRec.weights.Stores[2])
  /\ tickRec.weights.Stores[2].Weights = SomeWeights

(***************************************************************************)
(* C17.  Once the stopper quiesces, the loop, if scheduled fairly, ends;   *)
(* after it has ended it calls the provider no more and pushes no more     *)
(* weights; and never are two tick bodies in progress at once.             *)
(***************************************************************************)
C17_LoopTerminates ==
  /\ (quiescing /\ loopPc # "notStarted") ~> (loopPc = "stopped")
  /\ [](active <= 1)
  /\ [][loopPc = "stopped" => (loopPc' = "stopped" /\ tickRec' = tickRec)]_vars

\* The loop has ended after a tick that polled, with a tick left in the
\* channel of the ticker.
C17_Witness ==
  /\ loopPc = "stopped"
  /\ tickerStopped
  /\ tickerC
  /\ tickRec.state = "polled"

(***************************************************************************)
(* C18.  FollowerStoreWriteBytes calls no queue when the write bytes and   *)
(* the ingested bytes are both zero, whatever the entry count, or when the *)
(* store has no queue; in every other case it calls BypassedWorkDone on    *)
(* the queue of the store exactly once, with the entry count and the two   *)
(* byte counts it was given.                                               *)
(***************************************************************************)
C18_FollowerBypassedWork ==
  followerCall.called =>
    LET f == followerCall.followerWriteBytes
        calls == followerCall.calls
    IN  IF \/ (f.WriteBytes = 0 /\ f.IngestedBytes = 0)
           \/ followerCall.storeID \notin StoresWithQueue
          THEN calls = << >>
          ELSE /\ Len(calls) = 1
               /\ calls[1].q = followerCall.storeID
               /\ calls[1].numEntries = f.NumEntries
               /\ calls[1].info.WriteBytes = f.WriteBytes
               /\ calls[1].info.IngestedBytes = f.IngestedBytes

\* Ingested bytes alone, with no entry, have been reported to the queue of
\* the store.
C18_Witness ==
  /\ followerCall.called
  /\ followerCall.followerWriteBytes.WriteBytes = 0
  /\ followerCall.followerWriteBytes.NumEntries = 0
  /\ followerCall.followerWriteBytes.IngestedBytes = 1
  /\ Len(followerCall.calls) = 1

(***************************************************************************)
(* C19.  Merge is commutative and associative, field by field: a merged    *)
(* with b equals b merged with a, a and b merged and then c equals a       *)
(* merged with the merge of b and c, and the three merged in any order     *)
(* give one and the same total, sums that overflow included.               *)
(***************************************************************************)
C19_MergeAssociativeCommutative ==
  /\ merged.step >= 1 =>
       /\ merged.ab.NumEntries = merged.ba.NumEntries
       /\ merged.ab.WriteBytes = merged.ba.WriteBytes
       /\ merged.ab.IngestedBytes = merged.ba.IngestedBytes
  /\ merged.step = 2 =>
       /\ merged.abc.NumEntries = merged.a_bc.NumEntries
       /\ merged.abc.WriteBytes = merged.a_bc.WriteBytes
       /\ merged.abc.IngestedBytes = merged.a_bc.IngestedBytes
       /\ merged.folds = {merged.abc}

\* Three different reports have been merged, with an entry count that
\* overflowed.
C19_Witness ==
  /\ merged.step = 2
  /\ reports.a.NumEntries = MaxInt
  /\ reports.b.NumEntries = 1
  /\ reports.c.NumEntries = 0
  /\ reports.a.WriteBytes = 1
  /\ reports.b.WriteBytes = 0
  /\ reports.c.IngestedBytes = 1
  /\ merged.abc.NumEntries = MinInt

(***************************************************************************)
(* C21.  A call of AdmitKVWork that was granted an elastic CPU handle      *)
(* returns no error: nothing can fail after that grant, so the deferred    *)
(* function registered for the handle gives nothing back, the handle stays *)
(* outstanding in the elastic queue until AdmittedKVWorkDone, and it is    *)
(* AdmittedKVWorkDone that gives it back, once.                            *)
(***************************************************************************)
IsElasticGrant(e) == e.q = "elastic" /\ e.op = "Admit" /\ e.tok # Nil
IsElasticCompletion(e) ==
  e.q = "elastic" /\ e.op = "AdmittedWorkDone" /\ e.tok # Nil

C21_ElasticTokenNeverRolledBack ==
  \A r \in ReqIds :
    LET grants == SelectSeq(trace[r], IsElasticGrant)
        completions == SelectSeq(trace[r], IsElasticCompletion)
    IN  grants # << >> =>
          /\ Len(grants) = 1
          /\ pc[r] \in {"deferred", "returned", "done"}
          /\ ~result[r].retErr
          /\ result[r].handle.ElasticCPUWorkHandle = grants[1].tok
          /\ pc[r] # "done" =>
               /\ completions = << >>
               /\ grants[1].tok \in elasticQ
          /\ pc[r] = "done" =>
               /\ Len(completions) = 1
               /\ completions[1].tok = grants[1].tok
               /\ grants[1].tok \notin elasticQ

\* A write of a single export request holds a store token and an elastic
\* CPU handle, its deferred functions have run, and AdmitKVWork has returned.
C21_Witness ==
  \E r \in ReqIds :
    /\ pc[r] = "returned"
    /\ SelectSeq(trace[r], IsElasticGrant) # << >>
    /\ StoreTokenOutstanding(r)
    /\ \E o \in ReqIds : o # r /\ pc[o] = "done"
                         /\ SelectSeq(trace[o], IsElasticGrant) # << >>

(***************************************************************************)
(* C22.  When Stabilize has returned nil, every node it was called for,    *)
(* every node of the environment when it was called without index, is at   *)
(* rest: it has no Ready, no message of env.Messages is addressed to it,   *)
(* and its AppendWork and ApplyWork are empty.  When Stabilize has         *)
(* returned an error, the last thing it did was a call of ProcessReady or  *)
(* of ProcessAppendThread, and the error is the one that call returned.    *)
(***************************************************************************)
C22_StabilizeFixedPoint ==
  stab.pc = "returned" =>
    LET selected == IF stab.idxs = << >>
                      THEN NodeIdxs
                      ELSE { stab.idxs[k] : k \in 1..Len(stab.idxs) }
    IN  IF stab.ret = NilError
          THEN \A idx \in selected :
                 /\ ~envNodes[idx].HasReady
                 /\ \A k \in 1..Len(envMessages) :
                      envMessages[k].To # idx + 1
                 /\ envNodes[idx].AppendWork = 0
                 /\ envNodes[idx].ApplyWork = 0
          ELSE /\ lastStep.op \in {"ProcessReady", "ProcessAppendThread"}
               /\ lastStep.err = stab.ret
               /\ lastStep.idx \in selected

\* Stabilize, called without index, has returned nil after the nodes had
\* produced work and the apply thread of a node had run.
C22_Witness ==
  /\ stab.pc = "returned"
  /\ stab.ret = NilError
  /\ stab.idxs = << >>
  /\ lastStep.op = "ProcessApplyThread"
  /\ work < MaxWork - 1

=============================================================================
